---- MODULE Spec2Model ----
(***************************************************************************)
(* The Kubernetes job tracker of drmaa2os                                  *)
(* (pkg/jobtracker/kubernetestracker/kubernetestracker.go) as a state      *)
(* machine: Tracker objects (clientSet, jobsession) issuing calls against  *)
(* one cluster's set of Job workloads.                                     *)
(***************************************************************************)
EXTENDS Integers, Sequences, FiniteSets, TLC

(* ---------------------------- bounds ----------------------------------- *)
MaxJobs == 2
MaxIdx == 2
MaxTimeout == 1

(* ---------------------------- vocabulary ------------------------------- *)
Nil == "nil"
Sessions == {"A", "B"}
SessionLabel == "drmaa2jobsession"
ClientNamespace == "default"
TrackerIds == 1..2
GenName(n) == "job" \o ToString(n)
JobIds == {GenName(n) : n \in 1..MaxJobs}
Statuses == {"pending", "active", "suspended", "succeeded", "failed"}
ControlActions == {"suspend", "resume", "terminate", "bogus"}
Faults == {"none", "get", "call"}
InitParams == {"nilInterface", "clientset", "typedNil", "wrongType"}
Template(name, ns, labels, valid) ==
    [JobName |-> name, namespace |-> ns, labels |-> labels, valid |-> valid]
JobTemplates ==
    {Template("", "", {}, TRUE),
     Template(GenName(1), "", {<<"app", "x">>, <<"drmaa2jobsession", "A">>}, TRUE),
     Template("", "", {}, FALSE),
     Template("", "default", {}, TRUE),
     Template("", "other", {}, TRUE)}
NamedTemplates == {jt \in JobTemplates : jt.JobName # ""}
ArrayTemplates == {jt \in JobTemplates : jt.valid /\ jt.namespace = ""}

VARIABLES trackers, cluster, last, wait

vars == <<trackers, cluster, last, wait>>

NoTracker == [made |-> FALSE, clientSet |-> Nil, jobsession |-> ""]
NoCalls == <<>>
Report(op, t, arg, err, res, calls) ==
    [op |-> op, t |-> t, arg |-> arg, err |-> err, res |-> res, calls |-> calls]
IdleWait == [pc |-> "idle", t |-> 0, id |-> "", left |-> 0, states |-> {}, err |-> ""]

Names(cl) == {w.name : w \in cl}

(* ---------------------------- the struct ------------------------------- *)
KubernetesTracker(cs, jobsession) ==
    [made |-> TRUE, clientSet |-> cs, jobsession |-> jobsession]

(* ---------------------------- construction ----------------------------- *)
\* NewClientSet: builds a client from the ambient configuration.
NewClientSet(ambientOk) ==
    IF ambientOk THEN [cs |-> "ambient", err |-> ""]
    ELSE [cs |-> Nil, err |-> "config"]

\* New(jobsession, cs): lines 54-66.
NewTracker(jobsession, cs, ambientOk) ==
    IF cs = Nil
    THEN LET r == NewClientSet(ambientOk) IN
         IF r.err # ""
         THEN [kt |-> NoTracker, err |-> r.err, built |-> 1]
         ELSE [kt |-> KubernetesTracker(r.cs, jobsession), err |-> "", built |-> 1]
    ELSE [kt |-> KubernetesTracker(cs, jobsession), err |-> "", built |-> 0]

\* the type assertion jobTrackerInitParams.(*kubernetes.Clientset), line 44
AssertClientset(p) ==
    CASE p = "clientset" -> [cs |-> "given", ok |-> TRUE]
      [] p = "typedNil" -> [cs |-> Nil, ok |-> TRUE]
      [] OTHER -> [cs |-> Nil, ok |-> FALSE]

\* allocator.New without the check of the type assertion's result
AllocatorNewUnchecked(jobSessionName, p, ambientOk) ==
    IF p # "nilInterface"
    THEN NewTracker(jobSessionName, AssertClientset(p).cs, ambientOk)
    ELSE NewTracker(jobSessionName, Nil, ambientOk)

\* allocator.New(jobSessionName, jobTrackerInitParams): lines 39-50.
AllocatorNew(jobSessionName, p, ambientOk) ==
    IF p # "nilInterface"
    THEN LET a == AssertClientset(p) IN
         IF ~a.ok
         THEN [kt |-> NoTracker, err |-> "type", built |-> 0]
         ELSE NewTracker(jobSessionName, a.cs, ambientOk)
    ELSE NewTracker(jobSessionName, Nil, ambientOk)

(* ---------------------------- cluster client --------------------------- *)
\* getJobsClient(cs): the Jobs interface of the client, bound to one namespace.
getJobsClient(cs) ==
    IF cs = Nil THEN [err |-> "no clientset", ns |-> ""]
    ELSE [err |-> "", ns |-> ClientNamespace]

\* jc.List with a label selector key=value
ListCall(cl, ns, key, value) ==
    {w \in cl : w.namespace = ns /\ <<key, value>> \in w.labels}

\* jc.Get by name
GetCall(cl, ns, name) ==
    {w \in cl : w.namespace = ns /\ w.name = name}

\* the name the API server gives an object submitted without one: a name
\* no object of the namespace has
FreeNames(cl, ns) == {n \in 1..MaxJobs : GetCall(cl, ns, GenName(n)) = {}}
GenerateName(cl, ns) ==
    GenName(CHOOSE n \in FreeNames(cl, ns) : \A m \in FreeNames(cl, ns) : n <= m)

\* jc.Create: the API server names the object (generateName when the request
\* carries no name), rejects a namespace other than the request's and a name
\* that exists, and answers with the stored object.
CreateCall(cl, ns, job, apiOk) ==
    IF ~apiOk THEN [err |-> "api", cluster |-> cl, obj |-> job]
    ELSE IF job.namespace \notin {"", ns}
    THEN [err |-> "BadRequest", cluster |-> cl, obj |-> job]
    ELSE IF job.name # "" /\ GetCall(cl, ns, job.name) # {}
    THEN [err |-> "AlreadyExists", cluster |-> cl, obj |-> job]
    ELSE IF job.name = "" /\ FreeNames(cl, ns) = {}
    THEN [err |-> "api", cluster |-> cl, obj |-> job]
    ELSE LET name == IF job.name = "" THEN GenerateName(cl, ns) ELSE job.name
             obj == [job EXCEPT !.name = name, !.namespace = ns]
         IN [err |-> "", cluster |-> cl \cup {obj}, obj |-> obj]

\* jc.Delete by name
DeleteCall(cl, ns, name, apiOk) ==
    IF ~apiOk THEN [err |-> "api", cluster |-> cl]
    ELSE IF GetCall(cl, ns, name) = {} THEN [err |-> "NotFound", cluster |-> cl]
    ELSE [err |-> "", cluster |-> cl \ GetCall(cl, ns, name)]

(* ---------------------------- conversion ------------------------------- *)
\* labels of the template's extension merged onto the workload; the session
\* label is kept.
MergeLabels(jobsession, ext) ==
    {<<SessionLabel, jobsession>>} \cup {l \in ext : l[1] # SessionLabel}

\* convertJob(jobsession, jt)
convertJob(jobsession, jt) ==
    IF ~jt.valid THEN [err |-> "invalid template", job |-> Nil]
    ELSE [err |-> "",
          job |-> [name |-> jt.JobName,
                   namespace |-> jt.namespace,
                   labels |-> MergeLabels(jobsession, jt.labels),
                   status |-> "pending",
                   by |-> jobsession]]

(* ---------------------------- ListJobs --------------------------------- *)
\* the label selector of line 79, as key and value
LabelSelector(jobsession) == <<SessionLabel, jobsession>>

\* ListJobs with empty ListOptions: no label selector
ListJobsNoSelector(kt, cl, listOk) ==
    LET jc == getJobsClient(kt.clientSet) IN
    IF jc.err # "" THEN [err |-> "ListJobs", res |-> {}, calls |-> NoCalls]
    ELSE IF ~listOk
    THEN [err |-> "listing jobs with client", res |-> {}, calls |-> <<<<"list", FALSE>>>>]
    ELSE [err |-> "", res |-> {w.name : w \in {x \in cl : x.namespace = jc.ns}},
          calls |-> <<<<"list", TRUE>>>>]

\* ListJobs: lines 74-89.
ListJobsCall(kt, cl, listOk) ==
    LET jc == getJobsClient(kt.clientSet) IN
    IF jc.err # "" THEN [err |-> "ListJobs", res |-> {}, calls |-> NoCalls]
    ELSE IF ~listOk
    THEN [err |-> "listing jobs with client", res |-> {}, calls |-> <<<<"list", FALSE>>>>]
    ELSE LET sel == LabelSelector(kt.jobsession) IN
         [err |-> "", res |-> {w.name : w \in ListCall(cl, jc.ns, sel[1], sel[2])},
          calls |-> <<<<"list", TRUE>>>>]

(* ---------------------------- AddJob ----------------------------------- *)
\* AddJob returning the name of the object it sent, not of the one created
AddJobLocalName(kt, cl, jt, createOk) ==
    LET c == convertJob(kt.jobsession, jt) IN
    IF c.err # ""
    THEN [err |-> "converting job template into a k8s job", res |-> "",
          calls |-> NoCalls, cluster |-> cl]
    ELSE LET jc == getJobsClient(kt.clientSet) IN
         IF jc.err # ""
         THEN [err |-> "get client", res |-> "", calls |-> NoCalls, cluster |-> cl]
         ELSE LET j == CreateCall(cl, jc.ns, c.job, createOk) IN
              IF j.err # ""
              THEN [err |-> "creating new job", res |-> "",
                    calls |-> <<<<"create", FALSE>>>>, cluster |-> cl]
              ELSE [err |-> "", res |-> c.job.name,
                    calls |-> <<<<"create", TRUE>>>>, cluster |-> j.cluster]

\* AddJob issuing the create call again after it failed
AddJobRetries(kt, cl, jt, createOk) ==
    LET c == convertJob(kt.jobsession, jt) IN
    IF c.err # ""
    THEN [err |-> "converting job template into a k8s job", res |-> "",
          calls |-> NoCalls, cluster |-> cl]
    ELSE LET jc == getJobsClient(kt.clientSet) IN
         IF jc.err # ""
         THEN [err |-> "get client", res |-> "", calls |-> NoCalls, cluster |-> cl]
         ELSE LET j == CreateCall(cl, jc.ns, c.job, createOk)
                  k == CreateCall(cl, jc.ns, c.job, TRUE) IN
              IF j.err = ""
              THEN [err |-> "", res |-> j.obj.name,
                    calls |-> <<<<"create", TRUE>>>>, cluster |-> j.cluster]
              ELSE IF k.err # ""
              THEN [err |-> "creating new job", res |-> "",
                    calls |-> <<<<"create", FALSE>>, <<"create", FALSE>>>>, cluster |-> cl]
              ELSE [err |-> "", res |-> k.obj.name,
                    calls |-> <<<<"create", FALSE>>, <<"create", TRUE>>>>,
                    cluster |-> k.cluster]

\* AddJob: lines 93-107.
AddJobCall(kt, cl, jt, createOk) ==
    LET c == convertJob(kt.jobsession, jt) IN
    IF c.err # ""
    THEN [err |-> "converting job template into a k8s job", res |-> "",
          calls |-> NoCalls, cluster |-> cl]
    ELSE LET jc == getJobsClient(kt.clientSet) IN
         IF jc.err # ""
         THEN [err |-> "get client", res |-> "", calls |-> NoCalls, cluster |-> cl]
         ELSE LET j == CreateCall(cl, jc.ns, c.job, createOk) IN
              IF j.err # ""
              THEN [err |-> "creating new job", res |-> "",
                    calls |-> <<<<"create", FALSE>>>>, cluster |-> cl]
              ELSE [err |-> "", res |-> j.obj.name,
                    calls |-> <<<<"create", TRUE>>>>, cluster |-> j.cluster]

(* ---------------------------- array jobs ------------------------------- *)
\* helper.Guids2ArrayJobID: the job ids joined by a separator into one
\* composite identifier.
RECURSIVE Guids2ArrayJobID(_)
Guids2ArrayJobID(guids) ==
    IF guids = <<>> THEN <<>>
    ELSE IF Len(guids) = 1 THEN <<guids[1]>>
    ELSE <<guids[1], ",">> \o Guids2ArrayJobID(Tail(guids))

\* helper.ArrayJobID2GUIDs: splits a composite identifier at the separators;
\* an identifier with an empty element is malformed.
RECURSIVE ArrayJobID2GUIDs(_)
ArrayJobID2GUIDs(id) ==
    IF id = <<>> THEN [err |-> "", res |-> <<>>]
    ELSE IF id[1] = "," THEN [err |-> "malformed", res |-> <<>>]
    ELSE IF Len(id) = 1 THEN [err |-> "", res |-> <<id[1]>>]
    ELSE IF id[2] # "," \/ Len(id) = 2 THEN [err |-> "malformed", res |-> <<>>]
    ELSE LET r == ArrayJobID2GUIDs(SubSeq(id, 3, Len(id))) IN
         IF r.err # "" THEN r ELSE [err |-> "", res |-> <<id[1]>> \o r.res]

\* helper.AddArrayJobAsSingleJobs(jt, kt, begin, end, step): one AddJob per
\* index begin, begin+step, ... <= end; stops at the first error. failAt is the
\* index whose create call the API fails (0: none).
RECURSIVE ArrayLoop(_, _, _, _, _, _, _)
ArrayLoop(kt, st, jt, i, end, step, failAt) ==
    IF i > end THEN st
    ELSE LET r == AddJobCall(kt, st.cluster, jt, i # failAt) IN
         IF r.err # ""
         THEN [st EXCEPT !.err = r.err, !.calls = st.calls \o r.calls]
         ELSE ArrayLoop(kt,
                        [cluster |-> r.cluster, err |-> "",
                         ids |-> Append(st.ids, r.res), calls |-> st.calls \o r.calls],
                        jt, i + step, end, step, failAt)

AddArrayJobAsSingleJobs(jt, kt, cl, begin, end, step, failAt) ==
    LET st == ArrayLoop(kt, [cluster |-> cl, err |-> "", ids |-> <<>>, calls |-> NoCalls],
                        jt, begin, end, step, failAt)
    IN [err |-> st.err, res |-> Guids2ArrayJobID(st.ids), ids |-> st.ids,
        calls |-> st.calls, cluster |-> st.cluster]

\* AddArrayJob passing maxParallel where the last index belongs
AddArrayJobMaxParallelAsEnd(kt, cl, jt, begin, end, step, maxParallel, failAt) ==
    AddArrayJobAsSingleJobs(jt, kt, cl, begin, maxParallel, step, failAt)

\* AddArrayJob: lines 109-111 (maxParallel is not passed on).
AddArrayJobCall(kt, cl, jt, begin, end, step, maxParallel, failAt) ==
    AddArrayJobAsSingleJobs(jt, kt, cl, begin, end, step, failAt)

\* ListArrayJobs: lines 113-115.
ListArrayJobsCall(id) == ArrayJobID2GUIDs(id)

(* ---------------------------- state queries ---------------------------- *)
\* the mapping of a workload's status to a DRMAA2 state
StateOf(status) ==
    CASE status = "pending" -> "Queued"
      [] status = "active" -> "Running"
      [] status = "suspended" -> "Suspended"
      [] status = "succeeded" -> "Done"
      [] status = "failed" -> "Failed"
      [] OTHER -> "Undetermined"

\* DRMAA2State(jc, jobid): one get; a failed get is Undetermined.
DRMAA2State(cl, ns, jobid, getOk) ==
    LET found == GetCall(cl, ns, jobid) IN
    IF ~getOk \/ found = {} THEN "Undetermined"
    ELSE StateOf((CHOOSE w \in found : TRUE).status)

\* JobState returning the error of getJobsClient
JobStateReturnsError(kt, cl, jobid, getOk) ==
    LET jc == getJobsClient(kt.clientSet) IN
    IF jc.err # ""
    THEN [state |-> "Undetermined", sub |-> "", err |-> jc.err, calls |-> NoCalls]
    ELSE [state |-> DRMAA2State(cl, jc.ns, jobid, getOk), sub |-> "", err |-> "",
          calls |-> <<<<"get", getOk /\ GetCall(cl, jc.ns, jobid) # {}>>>>]

\* JobState: lines 117-123.
JobStateCall(kt, cl, jobid, getOk) ==
    LET jc == getJobsClient(kt.clientSet) IN
    IF jc.err # ""
    THEN [state |-> "Undetermined", sub |-> "", err |-> "", calls |-> NoCalls]
    ELSE [state |-> DRMAA2State(cl, jc.ns, jobid, getOk), sub |-> "", err |-> "",
          calls |-> <<<<"get", getOk /\ GetCall(cl, jc.ns, jobid) # {}>>>>]

\* JobToJobInfo(jc, jobid): one get, mapped into a job-info record.
JobToJobInfo(cl, ns, jobid, getOk) ==
    LET found == GetCall(cl, ns, jobid) IN
    IF ~getOk \/ found = {}
    THEN [err |-> "get", res |-> Nil, calls |-> <<<<"get", FALSE>>>>]
    ELSE [err |-> "",
          res |-> [ID |-> jobid, State |-> StateOf((CHOOSE w \in found : TRUE).status)],
          calls |-> <<<<"get", TRUE>>>>]

\* JobInfo: lines 125-131.
JobInfoCall(kt, cl, jobid, getOk) ==
    LET jc == getJobsClient(kt.clientSet) IN
    IF jc.err # "" THEN [err |-> jc.err, res |-> Nil, calls |-> NoCalls]
    ELSE JobToJobInfo(cl, jc.ns, jobid, getOk)

(* ---------------------------- control and delete ----------------------- *)
\* getJobInterfaceAndJob(cs, jobid): the client, then one get by name.
getJobInterfaceAndJob(cs, cl, jobid, getOk) ==
    LET jc == getJobsClient(cs) IN
    IF jc.err # "" THEN [err |-> jc.err, ns |-> "", job |-> Nil, calls |-> NoCalls]
    ELSE LET found == GetCall(cl, jc.ns, jobid) IN
         IF ~getOk \/ found = {}
         THEN [err |-> "get", ns |-> jc.ns, job |-> Nil, calls |-> <<<<"get", FALSE>>>>]
         ELSE [err |-> "", ns |-> jc.ns, job |-> CHOOSE w \in found : TRUE,
               calls |-> <<<<"get", TRUE>>>>]

\* deleteJob(jc, job): one delete call.
deleteJob(cl, ns, job, apiOk) ==
    LET d == DeleteCall(cl, ns, job.name, apiOk) IN
    [err |-> d.err, cluster |-> d.cluster, calls |-> <<<<"delete", d.err = "">>>>]

\* the status a workload has after its suspend flag is set or cleared
Suspended(status, flag) ==
    IF flag /\ status \in {"pending", "active"} THEN "suspended"
    ELSE IF ~flag /\ status = "suspended" THEN "pending"
    ELSE status

\* jobStateChange(jc, job, action): suspend/hold and resume/release update
\* the workload, terminate deletes it, anything else is unsupported.
jobStateChange(cl, ns, job, action, apiOk) ==
    CASE action = "terminate" -> deleteJob(cl, ns, job, apiOk)
      [] action \in {"suspend", "hold", "resume", "release"} ->
           IF ~apiOk THEN [err |-> "api", cluster |-> cl, calls |-> <<<<"update", FALSE>>>>]
           ELSE [err |-> "",
                 cluster |-> (cl \ {job}) \cup
                     {[job EXCEPT !.status =
                          Suspended(job.status, action \in {"suspend", "hold"})]},
                 calls |-> <<<<"update", TRUE>>>>]
      [] OTHER -> [err |-> "unsupported", cluster |-> cl, calls |-> NoCalls]

\* JobControl: lines 135-141.
JobControlCall(kt, cl, jobid, state, getOk, apiOk) ==
    LET l == getJobInterfaceAndJob(kt.clientSet, cl, jobid, getOk) IN
    IF l.err # "" THEN [err |-> "JobControl", cluster |-> cl, calls |-> l.calls]
    ELSE LET r == jobStateChange(cl, l.ns, l.job, state, apiOk) IN
         [err |-> r.err, cluster |-> r.cluster, calls |-> l.calls \o r.calls]

\* DeleteJob dropping the error of the delete call
DeleteJobDropsError(kt, cl, jobid, getOk, apiOk) ==
    LET l == getJobInterfaceAndJob(kt.clientSet, cl, jobid, getOk) IN
    IF l.err # "" THEN [err |-> "DeleteJob", cluster |-> cl, calls |-> l.calls]
    ELSE LET r == deleteJob(cl, l.ns, l.job, apiOk) IN
         [err |-> "", cluster |-> r.cluster, calls |-> l.calls \o r.calls]

\* DeleteJob: lines 150-156.
DeleteJobCall(kt, cl, jobid, getOk, apiOk) ==
    LET l == getJobInterfaceAndJob(kt.clientSet, cl, jobid, getOk) IN
    IF l.err # "" THEN [err |-> "DeleteJob", cluster |-> cl, calls |-> l.calls]
    ELSE LET r == deleteJob(cl, l.ns, l.job, apiOk) IN
         [err |-> r.err, cluster |-> r.cluster, calls |-> l.calls \o r.calls]

(* ---------------------------- actions ---------------------------------- *)
Made(t) == trackers[t].made

AllocNew(t, s, p, ambientOk) ==
    /\ ~Made(t)
    /\ \A u \in TrackerIds : u < t => Made(u)
    /\ \E r \in {AllocatorNew(s, p, ambientOk)} :
       /\ trackers' = [trackers EXCEPT ![t] = r.kt]
       /\ last' = Report("New", t, p, r.err,
                         [built |-> r.built, session |-> s, ambientOk |-> ambientOk],
                         NoCalls)
    /\ UNCHANGED <<cluster, wait>>

\* ListJobs storing the selector string in the tracker's jobsession field
ListJobsRenames(t, listOk) ==
    /\ Made(t)
    /\ \E r \in {ListJobsCall(trackers[t], cluster, listOk)} :
       last' = Report("ListJobs", t, "", r.err, r.res, r.calls)
    /\ trackers' = [trackers EXCEPT
                      ![t].jobsession = SessionLabel \o "=" \o trackers[t].jobsession]
    /\ UNCHANGED <<cluster, wait>>

ListJobs(t, listOk) ==
    /\ Made(t)
    /\ \E r \in {ListJobsCall(trackers[t], cluster, listOk)} :
       last' = Report("ListJobs", t, "", r.err, r.res, r.calls)
    /\ UNCHANGED <<trackers, cluster, wait>>

AddJob(t, jt, createOk) ==
    /\ Made(t)
    /\ \E r \in {AddJobCall(trackers[t], cluster, jt, createOk)} :
       /\ cluster' = r.cluster
       /\ last' = Report("AddJob", t, "", r.err, r.res, r.calls)
    /\ UNCHANGED <<trackers, wait>>

\* a KubernetesTracker{} literal: the zero value of the struct, lines 20-23
ZeroValue(t) ==
    /\ ~Made(t)
    /\ \A u \in TrackerIds : u < t => Made(u)
    /\ trackers' = [trackers EXCEPT ![t] = KubernetesTracker(Nil, "")]
    /\ last' = Report("literal", t, "", "", "", NoCalls)
    /\ UNCHANGED <<cluster, wait>>

\* ListJobCategories: lines 68-70.
ListJobCategories(t) ==
    /\ Made(t)
    /\ last' = Report("ListJobCategories", t, "", "", {}, NoCalls)
    /\ UNCHANGED <<trackers, cluster, wait>>

AddArrayJob(t, jt, begin, end, step, maxParallel, failAt) ==
    /\ Made(t)
    /\ \E r \in {AddArrayJobCall(trackers[t], cluster, jt, begin, end, step,
                                maxParallel, failAt)} :
       /\ cluster' = r.cluster
       /\ last' = Report("AddArrayJob", t, <<begin, end, step>>, r.err,
                         [id |-> r.res, ids |-> r.ids], r.calls)
    /\ UNCHANGED <<trackers, wait>>

\* the caller passes the composite id AddArrayJob gave it, or another id
ListArrayJobs(t, other) ==
    /\ Made(t)
    /\ LET id == IF last.op = "AddArrayJob" THEN last.res.id ELSE other
           r == ListArrayJobsCall(id) IN
       last' = Report("ListArrayJobs", t, id, r.err, r.res, NoCalls)
    /\ UNCHANGED <<trackers, cluster, wait>>

JobState(t, jobid, getOk) ==
    /\ Made(t)
    /\ \E r \in {JobStateCall(trackers[t], cluster, jobid, getOk)} :
       last' = Report("JobState", t, jobid, r.err, [state |-> r.state, sub |-> r.sub],
                      r.calls)
    /\ UNCHANGED <<trackers, cluster, wait>>

JobInfo(t, jobid, getOk) ==
    /\ Made(t)
    /\ \E r \in {JobInfoCall(trackers[t], cluster, jobid, getOk)} :
       last' = Report("JobInfo", t, jobid, r.err, r.res, r.calls)
    /\ UNCHANGED <<trackers, cluster, wait>>

JobControl(t, jobid, state, getOk, apiOk) ==
    /\ Made(t)
    /\ \E r \in {JobControlCall(trackers[t], cluster, jobid, state, getOk, apiOk)} :
       /\ cluster' = r.cluster
       /\ last' = Report("JobControl", t, jobid, r.err, "", r.calls)
    /\ UNCHANGED <<trackers, wait>>

DeleteJob(t, jobid, getOk, apiOk) ==
    /\ Made(t)
    /\ \E r \in {DeleteJobCall(trackers[t], cluster, jobid, getOk, apiOk)} :
       /\ cluster' = r.cluster
       /\ last' = Report("DeleteJob", t, jobid, r.err, "", r.calls)
    /\ UNCHANGED <<trackers, wait>>

\* Wait passing no usable timeout on
WaitNoTimeout(t, jobid, timeout, states) ==
    /\ Made(t)
    /\ wait.pc # "polling"
    /\ wait' = [pc |-> "polling", t |-> t, id |-> jobid, left |-> 0 - 1,
                states |-> states, err |-> ""]
    /\ last' = Report("Wait", t, jobid, "", "", NoCalls)
    /\ UNCHANGED <<trackers, cluster>>

\* Wait: lines 145-147; the call blocks in helper.WaitForState.
Wait(t, jobid, timeout, states) ==
    /\ Made(t)
    /\ wait.pc # "polling"
    /\ wait' = [pc |-> "polling", t |-> t, id |-> jobid, left |-> timeout,
                states |-> states, err |-> ""]
    /\ last' = Report("Wait", t, jobid, "", "", NoCalls)
    /\ UNCHANGED <<trackers, cluster>>

\* helper.WaitForState: one check of JobState per polling interval.
WaitPoll(getOk) ==
    /\ wait.pc = "polling"
    /\ \E r \in {JobStateCall(trackers[wait.t], cluster, wait.id, getOk)} :
       /\ r.err # "" \/ r.state \in wait.states \/ wait.left > 0
       /\ wait' = IF r.err # "" THEN [IdleWait EXCEPT !.pc = "done", !.err = "poll"]
                  ELSE IF r.state \in wait.states THEN [IdleWait EXCEPT !.pc = "done"]
                  ELSE [wait EXCEPT !.left = wait.left - 1]
       /\ last' = Report("poll", wait.t, wait.id, r.err,
                         [state |-> r.state, sub |-> r.sub], r.calls)
    /\ UNCHANGED <<trackers, cluster>>

\* helper.WaitForState: the timeout elapsed.
WaitTimeout ==
    /\ wait.pc = "polling"
    /\ wait.left = 0
    /\ wait' = [IdleWait EXCEPT !.pc = "done", !.err = "timeout"]
    /\ last' = Report("timeout", wait.t, wait.id, "timeout", "", NoCalls)
    /\ UNCHANGED <<trackers, cluster>>

\* the cluster runs its workloads
ClusterStep(w, status) ==
    /\ w \in cluster
    /\ \/ w.status = "pending" /\ status = "active"
       \/ w.status = "active" /\ status \in {"succeeded", "failed"}
    /\ cluster' = (cluster \ {w}) \cup {[w EXCEPT !.status = status]}
    /\ last' = Report("cluster", 0, w.name, "", "", NoCalls)
    /\ UNCHANGED <<trackers, wait>>

\* Trackers as New and a struct literal leave them: two sessions, one session
\* through two clients, and a tracker without a client.
TrackerConfigs ==
    {<<KubernetesTracker("given", "A"), KubernetesTracker("ambient", "B")>>,
     <<KubernetesTracker("given", "A"), KubernetesTracker("ambient", "A")>>,
     <<KubernetesTracker("given", "B"), KubernetesTracker(Nil, "")>>}

\* another actor of the cluster creates, changes or deletes a workload
ExternalCreate(name, labels) ==
    /\ GetCall(cluster, ClientNamespace, name) = {}
    /\ cluster' = cluster \cup {[name |-> name, namespace |-> ClientNamespace,
                                 labels |-> labels, status |-> "active",
                                 by |-> "external"]}
    /\ last' = Report("external", 0, name, "", "", NoCalls)
    /\ UNCHANGED <<trackers, wait>>

ExternalChange(w, status) ==
    /\ w \in cluster
    /\ w.status # status
    /\ cluster' = (cluster \ {w}) \cup {[w EXCEPT !.status = status]}
    /\ last' = Report("external", 0, w.name, "", "", NoCalls)
    /\ UNCHANGED <<trackers, wait>>

ExternalDelete(w) ==
    /\ w \in cluster
    /\ cluster' = cluster \ {w}
    /\ last' = Report("external", 0, w.name, "", "", NoCalls)
    /\ UNCHANGED <<trackers, wait>>

Init ==
    /\ trackers \in TrackerConfigs
    /\ cluster = {}
    /\ last = Report("init", 0, "", "", "", NoCalls)
    /\ wait = IdleWait

InitAlloc ==
    /\ trackers = [t \in TrackerIds |-> NoTracker]
    /\ cluster = {}
    /\ last = Report("init", 0, "", "", "", NoCalls)
    /\ wait = IdleWait

Next ==
    \/ \E t \in TrackerIds : ListJobCategories(t)
    \/ \E t \in TrackerIds, ok \in BOOLEAN : ListJobs(t, ok)
    \/ \E t \in TrackerIds, jt \in JobTemplates, ok \in BOOLEAN : AddJob(t, jt, ok)
    \/ \E t \in TrackerIds, jt \in ArrayTemplates, e \in 1..MaxIdx, st \in 1..2,
          mf \in {<<0, 0>>, <<MaxIdx, 0>>, <<0, MaxIdx>>} :
         \E b \in 1..e : AddArrayJob(t, jt, b, e, st, mf[1], mf[2])
    \/ \E t \in TrackerIds : ListArrayJobs(t, <<GenName(1), ",">>)
    \/ \E t \in TrackerIds, id \in JobIds, ok \in BOOLEAN : JobState(t, id, ok)
    \/ \E t \in TrackerIds, id \in JobIds, ok \in BOOLEAN : JobInfo(t, id, ok)
    \/ \E t \in TrackerIds, id \in JobIds, a \in ControlActions, f \in Faults :
         JobControl(t, id, a, f # "get", f # "call")
    \/ \E t \in TrackerIds, id \in JobIds, f \in Faults :
         DeleteJob(t, id, f # "get", f # "call")

Spec == Init /\ [][Next]_vars

NextAlloc ==
    \/ \E t \in TrackerIds, s \in Sessions, p \in InitParams, ok \in BOOLEAN :
         AllocNew(t, s, p, ok)
    \/ \E t \in TrackerIds : ZeroValue(t)
    \/ \E t \in TrackerIds : ListJobCategories(t)
    \/ \E t \in TrackerIds, ok \in BOOLEAN : ListJobs(t, ok)
    \/ \E t \in TrackerIds, id \in JobIds, ok \in BOOLEAN : JobState(t, id, ok)

AllocSpec == InitAlloc /\ [][NextAlloc]_vars

\* the query and lifecycle operations with the cluster running its workloads
\* and one caller blocked in Wait
InitState ==
    /\ trackers = <<KubernetesTracker("given", "A"), KubernetesTracker(Nil, "")>>
    /\ cluster = {}
    /\ last = Report("init", 0, "", "", "", NoCalls)
    /\ wait = IdleWait

NextState ==
    \/ \E t \in TrackerIds, jt \in NamedTemplates, ok \in BOOLEAN : AddJob(t, jt, ok)
    \/ \E t \in TrackerIds, id \in JobIds, ok \in BOOLEAN : JobState(t, id, ok)
    \/ \E t \in TrackerIds, id \in JobIds, ok \in BOOLEAN : JobInfo(t, id, ok)
    \/ \E t \in TrackerIds, id \in JobIds, a \in ControlActions, f \in Faults :
         JobControl(t, id, a, f # "get", f # "call")
    \/ \E t \in TrackerIds, id \in JobIds, f \in Faults :
         DeleteJob(t, id, f # "get", f # "call")
    \/ \E t \in TrackerIds, id \in JobIds, to \in 1..MaxTimeout,
          ss \in {{"Running"}, {"Done", "Failed"}} : Wait(t, id, to, ss)
    \/ \E ok \in BOOLEAN : WaitPoll(ok)
    \/ WaitTimeout
    \/ \E w \in cluster, st \in Statuses : ClusterStep(w, st)

\* helper.WaitForState runs its ticker and its timer until it returns
StateSpec ==
    /\ InitState
    /\ [][NextState]_vars
    /\ WF_vars(\E ok \in BOOLEAN : WaitPoll(ok))
    /\ WF_vars(WaitTimeout)

\* the operations with another actor working on the cluster directly
NextEnv ==
    \/ \E t \in TrackerIds, ok \in BOOLEAN : ListJobs(t, ok)
    \/ \E t \in TrackerIds, jt \in JobTemplates, ok \in BOOLEAN : AddJob(t, jt, ok)
    \/ \E t \in TrackerIds, id \in JobIds, ok \in BOOLEAN : JobState(t, id, ok)
    \/ \E t \in TrackerIds, id \in JobIds, ok \in BOOLEAN : JobInfo(t, id, ok)
    \/ \E t \in TrackerIds, id \in JobIds, f \in Faults :
         DeleteJob(t, id, f # "get", f # "call")
    \/ \E n \in JobIds, l \in {{}, {<<SessionLabel, "A">>}} : ExternalCreate(n, l)
    \/ \E w \in cluster, st \in {"active", "succeeded"} : ExternalChange(w, st)
    \/ \E w \in cluster : ExternalDelete(w)

EnvSpec == Init /\ [][NextEnv]_vars

(* ---------------------------- properties ------------------------------- *)
SessionOf(t) == trackers[t].jobsession
Failed(calls) == {i \in 1..Len(calls) : ~calls[i][2]}
Verbs(calls, v) == {i \in 1..Len(calls) : calls[i][1] = v}
Indices(begin, end, step) == {i \in begin..end : (i - begin) % step = 0}

\* C1: a successful ListJobs on a tracker of session S returns exactly the
\* names of the workloads that AddJob created on a tracker of session S and
\* that are still in the cluster, whatever extensions the templates carried.
C1_LabelIsolation ==
    (last.op = "ListJobs" /\ last.err = "") =>
        last.res = {w.name : w \in {x \in cluster : x.by = SessionOf(last.t)}}

\* a tracker lists a job submitted with the labels extension while a job of
\* another session is in the cluster
C1_Witness ==
    /\ last.op = "ListJobs" /\ last.err = ""
    /\ \E w \in cluster : w.name \in last.res /\ <<"app", "x">> \in w.labels
    /\ \E w \in cluster : w.by # SessionOf(last.t) /\ w.name \notin last.res

\* C2: a successful AddJob adds exactly one workload, returns the name the
\* create call answered with, and the workload carries the session label of the
\* tracker and no other value of it.
C2_AddJobCreatesOne ==
    [][(last'.op = "AddJob" /\ last'.err = "") =>
         /\ last'.calls = <<<<"create", TRUE>>>>
         /\ \E w \in cluster' :
              /\ w \notin cluster
              /\ cluster' = cluster \cup {w}
              /\ w.name = last'.res
              /\ {l[2] : l \in {k \in w.labels : k[1] = SessionLabel}}
                    = {SessionOf(last'.t)}]_vars

\* AddJob returned a name the API server generated
C2_Witness ==
    /\ last.op = "AddJob" /\ last.err = ""
    /\ \E w \in cluster : w.name = last.res /\ w.by = SessionOf(last.t)
    /\ last.res = GenName(MaxJobs)

\* C4: a DeleteJob that returns no error has removed the workload, a name that
\* is gone comes back only through AddJob or AddArrayJob, and ListJobs returns
\* names of the cluster only; a DeleteJob whose lookup fails returns an error
\* and leaves the cluster as it was.
C4_DeleteThenList ==
    [][/\ (last'.op = "DeleteJob" /\ last'.err = "") =>
            (last'.arg \in Names(cluster) /\ last'.arg \notin Names(cluster'))
       /\ (last'.op = "DeleteJob" /\ <<"get", TRUE>> \notin {last'.calls[i] : i \in 1..Len(last'.calls)}) =>
            (last'.err = "DeleteJob" /\ cluster' = cluster)
       /\ (Names(cluster') \ Names(cluster) # {}) => last'.op \in {"AddJob", "AddArrayJob"}
       /\ (last'.op = "ListJobs" /\ last'.err = "") => last'.res \subseteq Names(cluster')
      ]_vars

\* DeleteJob succeeded on a job of the tracker's session
C4_Witness ==
    /\ last.op = "DeleteJob" /\ last.err = ""
    /\ last.arg \notin Names(cluster)
    /\ cluster # {}

\* C7: a successful AddArrayJob with begin <= end has submitted one job per
\* index begin, begin+step, ... <= end, each a distinct workload of the
\* tracker's session that a lookup by name finds, and ListArrayJobs on the
\* returned id gives those job ids, whatever maxParallel was.
C7_ArrayRoundTrip ==
    (last.op = "AddArrayJob" /\ last.err = "" /\ last.arg[1] <= last.arg[2]) =>
        LET ids == last.res.ids
            n == Cardinality(Indices(last.arg[1], last.arg[2], last.arg[3]))
        IN /\ Len(ids) = n
           /\ Cardinality({ids[i] : i \in 1..Len(ids)}) = n
           /\ \A i \in 1..Len(ids) :
                \E w \in GetCall(cluster, ClientNamespace, ids[i]) :
                    w.by = SessionOf(last.t)
           /\ last.calls = [i \in 1..n |-> <<"create", TRUE>>]
           /\ ListArrayJobsCall(last.res.id) = [err |-> "", res |-> ids]

\* an array job of MaxIdx jobs was submitted
C7_Witness ==
    /\ last.op = "AddArrayJob" /\ last.err = ""
    /\ Len(last.res.ids) = MaxIdx
    /\ Len(last.res.id) > MaxIdx

\* C8: allocator.New with a parameter that is not a clientset returns a type
\* error, no tracker, and builds no client; with a non-nil clientset it returns
\* a tracker of that clientset and session; with nil it builds a client from the
\* ambient configuration and returns the failure to build it with no tracker.
C8_AllocatorNew ==
    (last.op = "New") =>
        LET kt == trackers[last.t] IN
        /\ (last.arg = "wrongType") =>
              (last.err = "type" /\ ~kt.made /\ last.res.built = 0)
        /\ (last.arg = "clientset") =>
              /\ last.err = "" /\ last.res.built = 0
              /\ kt = KubernetesTracker("given", last.res.session)
        /\ (last.arg = "nilInterface") =>
              /\ last.res.built = 1
              /\ last.res.ambientOk =>
                    (last.err = "" /\ kt = KubernetesTracker("ambient", last.res.session))
              /\ ~last.res.ambientOk => (last.err = "config" /\ ~kt.made)

\* New was refused a parameter of another type
C8_Witness ==
    /\ last.op = "New" /\ last.arg = "wrongType" /\ last.err = "type"
    /\ \E t \in TrackerIds : trackers[t].made /\ trackers[t].clientSet = "given"

\* C3: an operation issued on a tracker of one session never reads, changes or
\* deletes a workload created under another session.
C3_SessionScoped ==
    [][(last'.op \in {"JobState", "JobInfo", "JobControl", "DeleteJob", "ListJobs"}) =>
         LET got == IF \E i \in 1..Len(last'.calls) : last'.calls[i] = <<"get", TRUE>>
                    THEN GetCall(cluster, ClientNamespace, last'.arg) ELSE {}
             touched == got \cup (cluster \ cluster')
         IN \A w \in touched : w.by = SessionOf(last'.t)]_vars

\* C5: a Wait that is polling returns; it returns without error exactly when a
\* poll of JobState found one of the target states, and otherwise with the
\* timeout error once the timeout has run out, also for a job that stays in
\* another state, a job that does not exist and a tracker without a client.
C5_WaitTerminates ==
    /\ (wait.pc = "polling") ~> (wait.pc = "done")
    /\ [][(wait.pc = "polling" /\ last'.op = "poll" /\ last'.res.state \in wait.states) =>
            (wait'.pc = "done" /\ wait'.err = "")]_vars
    /\ [][(wait.pc = "polling" /\ wait'.pc = "done") =>
            IF wait'.err = ""
            THEN last'.op = "poll" /\ last'.res.state \in wait.states
            ELSE wait'.err = "timeout" /\ wait.left = 0]_vars

\* a Wait on a tracker without a client ran into its timeout
C5_Witness ==
    /\ wait.pc = "done" /\ wait.err = "timeout"
    /\ last.op = "timeout"
    /\ trackers[last.t].clientSet = Nil

\* the states a workload's status stands for
StatusStates ==
    {<<"pending", "Queued">>, <<"active", "Running">>, <<"suspended", "Suspended">>,
     <<"succeeded", "Done">>, <<"failed", "Failed">>}

\* C6: JobState returns no error and an empty sub-state; without a client it
\* returns Undetermined and calls nothing, and with one it returns the state of
\* the workload's current status, or Undetermined when the lookup fails.
C6_JobStateNoError ==
    (last.op = "JobState") =>
        /\ last.err = ""
        /\ last.res.sub = ""
        /\ IF trackers[last.t].clientSet = Nil
           THEN last.res.state = "Undetermined" /\ last.calls = NoCalls
           ELSE IF last.calls = <<<<"get", TRUE>>>>
           THEN \E w \in cluster :
                  /\ w.name = last.arg
                  /\ <<w.status, last.res.state>> \in StatusStates
           ELSE last.calls = <<<<"get", FALSE>>>> /\ last.res.state = "Undetermined"

\* JobState on a tracker without a client answered Undetermined while the job
\* it was asked about is finished
C6_Witness ==
    /\ last.op = "JobState" /\ last.err = ""
    /\ trackers[last.t].clientSet = Nil
    /\ last.res.state = "Undetermined"
    /\ \E w \in cluster : w.name = last.arg /\ w.status = "succeeded"

PublicOps ==
    {"ListJobCategories", "ListJobs", "AddJob", "AddArrayJob", "ListArrayJobs",
     "JobState", "JobInfo", "JobControl", "DeleteJob"}
SingleCallOps == PublicOps \ {"AddArrayJob"}
ApiVerbs == {"list", "create", "get", "update", "delete"}

\* what every operation keeps: conversion and client errors of AddJob and
\* lookup errors of JobControl and DeleteJob come with an unchanged cluster
FailedEarly ==
    /\ (last'.op = "AddJob"
          /\ last'.err \in {"converting job template into a k8s job", "get client"}) =>
            (last'.calls = NoCalls /\ cluster' = cluster)
    /\ (last'.op \in {"JobControl", "DeleteJob"} /\ last'.err = last'.op) =>
            (cluster' = cluster /\ Verbs(last'.calls, "update") = {}
               /\ Verbs(last'.calls, "delete") = {})

====
